---- MODULE Spec2Model ----
(***************************************************************************)
(* Model of translator.py (DocumentProcessor): the document pipeline       *)
(* process() -> process_chapters(), the asset relocator                    *)
(* process_markdown_images() and the chapter splitter                      *)
(* split_markdown_into_chapters().                                         *)
(*                                                                         *)
(* A chapter body is a sequence of tokens: a run of plain text, or one     *)
(* image reference ![alt](path) as matched by image_pattern.  A path is    *)
(* the sequence of its "/"-separated components.  An optional value        *)
(* (Python None or a value) is a sequence of length 0 or 1.                *)
(***************************************************************************)
EXTENDS Integers, Sequences, FiniteSets, TLC

\* ---------------------------------------------------------------- bounds
MaxChapters == 2        \* chapters an adapter returns
MaxTokens == 2          \* tokens in one chapter body
MaxLen == 8             \* characters in a text given to the splitter

\* ------------------------------------------------------------ data model
None == <<>>
Some(v) == <<v>>

TextTok == [type |-> "text"]
Img(alt, path) == [type |-> "img", alt |-> alt, path |-> path]

\* Paths an image reference can carry, relative to the source directory.
\* <<"..", "images", "a.png">> is both what a relocated reference looks like
\* and a location beside the source directory that may hold a file.
SrcPaths == { <<"img", "a.png">>, <<"..", "images", "a.png">> }
Basenames == { "a.png" }
NoFile == "absent"
Contents == { "c1", "c2" }

\* Chapter bodies given to the pipeline: the empty text, a text without
\* images, and texts of up to MaxTokens image references.
ImgTokens == { Img("x", p) : p \in SrcPaths }
Bodies == { <<TextTok>> } \cup UNION { [1..n -> ImgTokens] : n \in 0..MaxTokens }
EmptyText == <<>>

\* The files that may lie beside the source: each path is absent or holds a
\* content of its own.
ContentOf(p) == IF p = <<"img", "a.png">> THEN "c1" ELSE "c2"
SrcFiles == { f \in [SrcPaths -> {NoFile} \cup Contents] :
                \A p \in SrcPaths : f[p] \in {NoFile, ContentOf(p)} }

Extensions == { ".pdf", ".epub", ".md", ".txt", ".docx" }

VARIABLES
  test_mode,      \* self.test_mode
  srcFS,          \* files beside the source: path -> content, NoFile if absent
  pc,             \* position in process() / process_chapters()
  outcome,        \* how process() ended
  dirs,           \* layout directories that exist on disk
  N,              \* len(chapters)
  i,              \* loop ordinal of process_chapters
  chapter,        \* the chapter body of the current iteration
  processed,      \* processed_original / processed_translation
  translated,     \* result of translate_chapter: None or Some(text)
  origFiles,      \* <stem>/original/chapter_NN.md : ordinal -> optional content
  transFiles,     \* <stem>/<lang3>/chapter_NN.md  : ordinal -> optional content
  images,         \* <stem>/images/<basename>      : basename -> content
  copies,         \* shutil.copy2 calls of the current chapter, per source path
  callLog,        \* ordinals passed to translate_chapter, in call order
  okCalls,        \* ordinals whose translate_chapter call returned a text
  finished,       \* ordinals whose iteration has completed all its I/O
  rel,            \* state of the relocation round trip
  spl             \* state of the splitter run

vars == << test_mode, srcFS, pc, outcome, dirs, N, i, chapter, processed,
           translated, origFiles, transFiles, images, copies, callLog,
           okCalls, finished, rel, spl >>

pipeVars == << test_mode, srcFS, pc, outcome, dirs, N, i, chapter,
               processed, translated, origFiles, transFiles, images, copies,
               callLog, okCalls, finished >>

LayoutDirs == { "original", "translated", "images" }

\* ------------------------------------------------------ asset relocation
\* os.path.basename: the part after the last "/".
basename(path) == path[Len(path)]

\* Path(self.file_path).parent / image_path, then .exists()
Exists(fs, path) == path \in DOMAIN fs /\ fs[path] # NoFile

\* f"![{alt_text}](../images/{image_filename})"
RewrittenRef(tok) == Img(tok.alt, <<"..", "images", basename(tok.path)>>)

\* replace_image_path with the rewrite moved inside the "exists" branch.
replace_image_path_norewrite(tok, fs, imgs, cnt) ==
  IF Exists(fs, tok.path)
  THEN [ tok    |-> RewrittenRef(tok),
         images |-> [imgs EXCEPT ![basename(tok.path)] = fs[tok.path]],
         copies |-> [cnt EXCEPT ![tok.path] = @ + 1] ]
  ELSE [ tok    |-> tok,
         images |-> imgs,
         copies |-> cnt ]

\* One call of replace_image_path on one match: copy if the source exists,
\* always rewrite.
replace_image_path(tok, fs, imgs, cnt) ==
  IF Exists(fs, tok.path)
  THEN [ tok    |-> RewrittenRef(tok),
         images |-> [imgs EXCEPT ![basename(tok.path)] = fs[tok.path]],
         copies |-> [cnt EXCEPT ![tok.path] = @ + 1] ]
  ELSE [ tok    |-> RewrittenRef(tok),
         images |-> imgs,
         copies |-> cnt ]

\* re.sub(image_pattern, replace_image_path, content): every match, left to
\* right, each through replace_image_path; other text is kept.
RECURSIVE process_markdown_images(_, _, _, _)
process_markdown_images(content, fs, imgs, cnt) ==
  IF content = <<>>
  THEN [ text |-> <<>>, images |-> imgs, copies |-> cnt ]
  ELSE LET tok == Head(content)
       IN IF tok.type = "img"
          THEN LET r    == replace_image_path(tok, fs, imgs, cnt)
                   rest == process_markdown_images(Tail(content), fs,
                                                   r.images, r.copies)
               IN [ rest EXCEPT !.text = <<r.tok>> \o @ ]
          ELSE LET rest == process_markdown_images(Tail(content), fs, imgs, cnt)
               IN [ rest EXCEPT !.text = <<tok>> \o @ ]

NoCopies == [ p \in SrcPaths |-> 0 ]
NoImages == [ b \in Basenames |-> NoFile ]
NoFiles  == [ k \in 1..(MaxChapters) |-> None ]

\* ------------------------------------------------------------- the oracle
\* translate_chapter: None when ollama.chat raises, else the response text.
\* The response is any text; the cases kept are the empty text, the chapter
\* with its markup preserved, and a text that holds no image.
OracleResponses(content) ==
  { None, Some(EmptyText), Some(content), Some(<<TextTok>>) }

\* Python truthiness of translate_chapter's result: None and "" are false.
Truthy(t) == t # None /\ t[1] # EmptyText

\* ----------------------------------------------------------- the pipeline
PipeInit ==
  /\ test_mode \in BOOLEAN
  /\ srcFS \in SrcFiles
  /\ pc = "start"
  /\ outcome = "running"
  /\ dirs = {}
  /\ N = 0
  /\ i = 0
  /\ chapter = EmptyText
  /\ processed = EmptyText
  /\ translated = None
  /\ origFiles = NoFiles
  /\ transFiles = NoFiles
  /\ images = NoImages
  /\ copies = NoCopies
  /\ callLog = <<>>
  /\ okCalls = {}
  /\ finished = {}

\* create_directory_structure: mkdir(parents=True, exist_ok=True) for each.
create_directory_structure ==
  /\ pc = "start"
  /\ dirs' = LayoutDirs
  /\ pc' = "dispatch"
  /\ UNCHANGED << test_mode, srcFS, outcome, N, i, chapter, processed,
                  translated, origFiles, transFiles, images, copies, callLog,
                  okCalls, finished >>

\* What the adapter chosen by the extension can return: None (the except
\* branch of pdf_to_markdown / epub_to_markdown), a list of n chapters, or
\* (read_file) an exception.
AdapterResults(e) ==
  CASE e = ".pdf"  -> {"None"} \cup { "list" }
    [] e = ".epub" -> {"None"} \cup { "list", "empty" }
    [] e \in {".md", ".txt"} -> { "list", "raise" }
    [] OTHER -> { "unsupported" }

\* process(), lines 174-187: dispatch on ext = self.file_path.suffix.lower(),
\* the extension of the source given to the run.
Dispatch ==
  /\ pc = "dispatch"
  /\ \E e \in Extensions : \E r \in AdapterResults(e) :
       \/ /\ r = "unsupported"
          /\ pc' = "done" /\ outcome' = "unsupported" /\ N' = 0 /\ i' = 0
       \/ /\ r = "None"
          /\ pc' = "done" /\ outcome' = "adapterError" /\ N' = 0 /\ i' = 0
       \/ /\ r = "raise"
          /\ pc' = "done" /\ outcome' = "readError" /\ N' = 0 /\ i' = 0
       \/ /\ r = "empty"
          /\ pc' = "done" /\ outcome' = "noChapters" /\ N' = 0 /\ i' = 0
       \/ /\ r = "list"
          /\ \E n \in 1..MaxChapters : N' = n
          /\ i' = 1 /\ pc' = "relocOrig" /\ outcome' = outcome
  /\ UNCHANGED << test_mode, srcFS, dirs, chapter, processed, translated,
                  origFiles, transFiles, images, copies, callLog, okCalls,
                  finished >>

\* End of one iteration of the for loop of process_chapters.
NextChapter(k) ==
  /\ finished' = finished \cup {k}
  /\ IF k < N
     THEN /\ i' = k + 1 /\ pc' = "relocOrig" /\ outcome' = outcome
     ELSE /\ i' = k /\ pc' = "done" /\ outcome' = "completed"

\* RelocateOriginal with the write of the original left to the success branch.
RelocateOriginal_skipwrite ==
  /\ pc = "relocOrig"
  /\ \E c \in Bodies :
       LET r == process_markdown_images(c, srcFS, images, NoCopies)
       IN /\ chapter' = c
          /\ processed' = r.text
          /\ images' = r.images
          /\ copies' = r.copies
  /\ pc' = "translate"
  /\ translated' = None
  /\ UNCHANGED << test_mode, srcFS, outcome, dirs, N, i, origFiles,
                  transFiles, callLog, okCalls, finished >>

\* Line 145: processed_original = self.process_markdown_images(chapter)
RelocateOriginal ==
  /\ pc = "relocOrig"
  /\ \E c \in Bodies :
       LET r == process_markdown_images(c, srcFS, images, NoCopies)
       IN /\ chapter' = c
          /\ processed' = r.text
          /\ images' = r.images
          /\ copies' = r.copies
  /\ pc' = IF test_mode THEN "translate" ELSE "writeOrig"
  /\ translated' = None
  /\ UNCHANGED << test_mode, srcFS, outcome, dirs, N, i, origFiles,
                  transFiles, callLog, okCalls, finished >>

\* write_file raising: open() failed (file untouched) or the write stopped
\* part-way (file holds a proper prefix).
FailedWrite(old, content) ==
  {old} \cup { Some(SubSeq(content, 1, k)) : k \in 0..(Len(content) - 1) }

\* WriteOriginal with the exception of write_file caught and logged.
WriteOriginal_swallow ==
  /\ pc = "writeOrig"
  /\ \/ /\ origFiles' = [origFiles EXCEPT ![i] = Some(processed)]
        /\ outcome' = outcome
     \/ /\ \E f \in FailedWrite(origFiles[i], processed) :
             origFiles' = [origFiles EXCEPT ![i] = f]
        /\ outcome' = "writeError"
  /\ pc' = "translate"
  /\ UNCHANGED << test_mode, srcFS, dirs, N, i, chapter, processed,
                  translated, transFiles, images, copies, callLog, okCalls,
                  finished >>

\* Lines 146-149: write_file(processed_original, original/chapter_NN.md)
WriteOriginal ==
  /\ pc = "writeOrig"
  /\ \/ /\ origFiles' = [origFiles EXCEPT ![i] = Some(processed)]
        /\ pc' = "translate"
        /\ outcome' = outcome
     \/ /\ \E f \in FailedWrite(origFiles[i], processed) :
             origFiles' = [origFiles EXCEPT ![i] = f]
        /\ pc' = "done"
        /\ outcome' = "writeError"
  /\ UNCHANGED << test_mode, srcFS, dirs, N, i, chapter, processed,
                  translated, transFiles, images, copies, callLog, okCalls,
                  finished >>

\* TranslateChapter with a failed translation ending the loop.
TranslateChapter_break ==
  /\ pc = "translate"
  /\ callLog' = Append(callLog, i)
  /\ \E t \in OracleResponses(chapter) :
       /\ translated' = t
       /\ okCalls' = IF t # None THEN okCalls \cup {i} ELSE okCalls
       /\ IF Truthy(t)
          THEN /\ pc' = "relocTrans" /\ i' = i /\ outcome' = outcome
               /\ finished' = finished
          ELSE /\ pc' = "done" /\ i' = i /\ outcome' = "completed"
               /\ finished' = finished \cup {i}
  /\ UNCHANGED << test_mode, srcFS, dirs, N, chapter, processed,
                  origFiles, transFiles, images, copies >>

\* TranslateChapter with the original text standing in for a failed
\* translation.
TranslateChapter_fallback ==
  /\ pc = "translate"
  /\ callLog' = Append(callLog, i)
  /\ \E t \in OracleResponses(chapter) :
       LET u == IF t = None THEN Some(chapter) ELSE t
       IN /\ translated' = u
          /\ okCalls' = IF t # None THEN okCalls \cup {i} ELSE okCalls
          /\ IF Truthy(u)
             THEN /\ pc' = "relocTrans" /\ i' = i /\ outcome' = outcome
                  /\ finished' = finished
             ELSE NextChapter(i)
  /\ UNCHANGED << test_mode, srcFS, dirs, N, chapter, processed,
                  origFiles, transFiles, images, copies >>

\* Lines 152-154: translated = self.translate_chapter(chapter); if translated
TranslateChapter ==
  /\ pc = "translate"
  /\ callLog' = Append(callLog, i)
  /\ \E t \in OracleResponses(chapter) :
       /\ translated' = t
       /\ okCalls' = IF t # None THEN okCalls \cup {i} ELSE okCalls
       /\ IF Truthy(t)
          THEN /\ pc' = "relocTrans" /\ i' = i /\ outcome' = outcome
               /\ finished' = finished
          ELSE NextChapter(i)
  /\ UNCHANGED << test_mode, srcFS, dirs, N, chapter, processed,
                  origFiles, transFiles, images, copies >>

\* Lines 155-157: processed_translation = process_markdown_images(translated)
RelocateTranslation ==
  /\ pc = "relocTrans"
  /\ LET r == process_markdown_images(translated[1], srcFS, images, copies)
     IN /\ processed' = r.text
        /\ images' = r.images
        /\ copies' = r.copies
  /\ pc' = IF test_mode THEN "print" ELSE "writeTrans"
  /\ UNCHANGED << test_mode, srcFS, outcome, dirs, N, i, chapter,
                  translated, origFiles, transFiles, callLog, okCalls,
                  finished >>

\* Lines 159-163: test mode prints the translation.
PrintTranslation ==
  /\ pc = "print"
  /\ NextChapter(i)
  /\ UNCHANGED << test_mode, srcFS, dirs, N, chapter, processed,
                  translated, origFiles, transFiles, images, copies, callLog,
                  okCalls >>

\* Lines 164-168: write_file(processed_translation, <lang3>/chapter_NN.md)
WriteTranslation ==
  /\ pc = "writeTrans"
  /\ \/ /\ transFiles' = [transFiles EXCEPT ![i] = Some(processed)]
        /\ NextChapter(i)
     \/ /\ \E f \in FailedWrite(transFiles[i], processed) :
             transFiles' = [transFiles EXCEPT ![i] = f]
        /\ pc' = "done"
        /\ outcome' = "writeError"
        /\ UNCHANGED << i, finished >>
  /\ UNCHANGED << test_mode, srcFS, dirs, N, chapter, processed,
                  translated, origFiles, images, copies, callLog, okCalls >>

Idle == [phase |-> "idle"]

Init ==
  /\ PipeInit
  /\ rel = Idle
  /\ spl = Idle

Next ==
  \/ (create_directory_structure /\ UNCHANGED << rel, spl >>)
  \/ (Dispatch /\ UNCHANGED << rel, spl >>)
  \/ (RelocateOriginal /\ UNCHANGED << rel, spl >>)
  \/ (WriteOriginal /\ UNCHANGED << rel, spl >>)
  \/ (TranslateChapter /\ UNCHANGED << rel, spl >>)
  \/ (RelocateTranslation /\ UNCHANGED << rel, spl >>)
  \/ (PrintTranslation /\ UNCHANGED << rel, spl >>)
  \/ (WriteTranslation /\ UNCHANGED << rel, spl >>)

Spec == Init /\ [][Next]_vars

\* The program is one thread that runs to its end: every enabled step is
\* eventually taken.
FairSpec == Spec /\ WF_vars(Next)

\* The pipeline at rest, for the runs of a single function below.
PipeIdle ==
  /\ test_mode = FALSE
  /\ srcFS = [ p \in SrcPaths |-> NoFile ]
  /\ pc = "idle"
  /\ outcome = "running"
  /\ dirs = {}
  /\ N = 0
  /\ i = 0
  /\ chapter = EmptyText
  /\ processed = EmptyText
  /\ translated = None
  /\ origFiles = NoFiles
  /\ transFiles = NoFiles
  /\ images = NoImages
  /\ copies = NoCopies
  /\ callLog = <<>>
  /\ okCalls = {}
  /\ finished = {}

\* ------------------------------------------- relocation applied twice
\* process_markdown_images on a body x, then again on its own output, against
\* the same source directory and the same images directory.
\* The round trip is run on every text of up to MaxTokens tokens, plain text
\* and image references mixed, and on every content of the source files.
Tokens == {TextTok} \cup ImgTokens
AllBodies == UNION { [1..n -> Tokens] : n \in 0..MaxTokens }
AllSrcFiles == [SrcPaths -> {NoFile} \cup Contents]

RelInit ==
  /\ PipeIdle
  /\ spl = Idle
  /\ \E x \in AllBodies, fs \in AllSrcFiles :
       rel = [ phase |-> "input", x |-> x, fs |-> fs ]

RelocateOnce ==
  /\ rel.phase = "input"
  /\ LET r == process_markdown_images(rel.x, rel.fs, NoImages, NoCopies)
     IN rel' = [ phase |-> "once", x |-> rel.x, fs |-> rel.fs,
                 y |-> r.text, images1 |-> r.images ]
  /\ UNCHANGED << pipeVars, spl >>

RelocateTwice ==
  /\ rel.phase = "once"
  /\ LET r == process_markdown_images(rel.y, rel.fs, rel.images1, NoCopies)
     IN rel' = [ phase |-> "twice", x |-> rel.x, fs |-> rel.fs,
                 y |-> rel.y, images1 |-> rel.images1,
                 z |-> r.text, images2 |-> r.images ]
  /\ UNCHANGED << pipeVars, spl >>

RelNext == RelocateOnce \/ RelocateTwice

RelSpec == RelInit /\ [][RelNext]_vars

\* ---------------------------------------------------- chapter splitter
Chars == { "#", " ", "\n", "a" }
Whitespace == { " ", "\n" }
Texts == UNION { [1..n -> Chars] : n \in 0..MaxLen }

\* str.strip(): leading and trailing whitespace removed.
RECURSIVE lstrip(_)
lstrip(s) == IF s # <<>> /\ Head(s) \in Whitespace THEN lstrip(Tail(s)) ELSE s

RECURSIVE rstrip(_)
rstrip(s) ==
  IF s # <<>> /\ s[Len(s)] \in Whitespace
  THEN rstrip(SubSeq(s, 1, Len(s) - 1))
  ELSE s

strip(s) == rstrip(lstrip(s))

\* the text at position p reads m
LookingAt(s, p, m) ==
  /\ p >= 1
  /\ p + Len(m) - 1 <= Len(s)
  /\ SubSeq(s, p, p + Len(m) - 1) = m

TopMarker == << "#", " " >>
SecondMarker == << "#", "#", " " >>

\* re.split(r"\n(?=<m>)", s): cut at every line break that is followed by m;
\* the line break is consumed, the marker stays with the next segment.
RECURSIVE re_split(_, _, _, _)
re_split(s, m, from, p) ==
  IF p > Len(s)
  THEN << SubSeq(s, from, Len(s)) >>
  ELSE IF s[p] = "\n" /\ LookingAt(s, p + 1, m)
       THEN << SubSeq(s, from, p - 1) >> \o re_split(s, m, p + 1, p + 1)
       ELSE re_split(s, m, from, p + 1)

\* split_markdown_into_chapters without the .strip() of the content.
split_markdown_into_chapters_nostrip(content) ==
  LET chapters == re_split(content, TopMarker, 1, 1)
  IN IF Len(chapters) = 1
     THEN re_split(content, SecondMarker, 1, 1)
     ELSE chapters

split_markdown_into_chapters(content) ==
  LET chapters == re_split(strip(content), TopMarker, 1, 1)
  IN IF Len(chapters) = 1
     THEN re_split(strip(content), SecondMarker, 1, 1)
     ELSE chapters

SplitInit ==
  /\ PipeIdle
  /\ rel = Idle
  /\ \E t \in Texts : spl = [ phase |-> "input", text |-> t ]

Split ==
  /\ spl.phase = "input"
  /\ spl' = [ phase |-> "split", text |-> spl.text,
              chapters |-> split_markdown_into_chapters(spl.text) ]
  /\ UNCHANGED << pipeVars, rel >>

SplitNext == Split

SplitSpec == SplitInit /\ [][SplitNext]_vars

\* ------------------------------------------------------------- claims
Written(files) == { k \in DOMAIN files : files[k] # None }

FilesystemUntouched ==
  /\ dirs = {}
  /\ origFiles = NoFiles
  /\ transFiles = NoFiles
  /\ images = NoImages

\* C1: a run that ends in a pre-processing error (unsupported extension, or
\* the PDF/EPUB adapter failing to parse) has, when it ends, created no
\* layout directory and written no file.
C1_PreprocessingErrorLeavesNoOutput ==
  (pc = "done" /\ outcome \in {"unsupported", "adapterError"})
    => FilesystemUntouched

\* C2: in preview mode (test_mode) the run never writes under the destination
\* layout: no directory created, no chapter file written, no asset copied.
C2_PreviewWritesNothing ==
  test_mode => FilesystemUntouched

\* C3: a failed translation does not stop the run.  The ordinals passed to
\* translate_chapter are 1, 2, 3, ... in this order, each once; a call is made
\* only when every earlier chapter's iteration has completed its I/O; the run
\* ends, and a run that ends without a write error has called translate_chapter
\* for every ordinal 1..N.
C3_CallsAreOrdinals ==
  /\ Len(callLog) <= N
  /\ \A k \in 1..Len(callLog) : callLog[k] = k
  /\ (outcome = "completed" => Len(callLog) = N)

C3_CallStep ==
  callLog' # callLog =>
     /\ callLog' = Append(callLog, Len(callLog) + 1)
     /\ \A j \in 1..Len(callLog) : j \in finished
     /\ pc \notin {"writeOrig", "writeTrans", "relocOrig", "relocTrans"}

C3_EveryChapterAttemptedInOrder ==
  /\ []C3_CallsAreOrdinals
  /\ [][C3_CallStep]_vars
  /\ <>(pc = "done")

C3_Witness ==
  /\ outcome = "completed"
  /\ N >= 2
  /\ 1 \notin okCalls
  /\ Len(callLog) = N

\* C4: in a persist-mode run the translated chapter files are at most N, and
\* a translated file exists only for an ordinal in 1..N whose translation call
\* returned a text.
C4_TranslatedFilesOnlyForSucceededCalls ==
  ~test_mode =>
     /\ Cardinality(Written(transFiles)) <= N
     /\ \A k \in Written(transFiles) : k \in 1..N /\ k \in okCalls

C4_Witness ==
  /\ ~test_mode
  /\ outcome = "completed"
  /\ N >= 2
  /\ 1 \notin okCalls
  /\ Written(transFiles) = {2}

\* C5: relocation applied to its own output returns that output unchanged and
\* leaves the images directory with the same files and contents.
C5_RelocationIdempotent ==
  rel.phase = "twice" =>
     /\ rel.z = rel.y
     /\ rel.images2 = rel.images1

\* C6: an image reference whose resolved source file does not exist is not
\* copied, raises nothing, and is still rewritten to ../images/<basename>; the
\* run goes on to write the original chapter and to call the translation.
MissingRefs(c) ==
  { k \in 1..Len(c) : c[k].type = "img" /\ ~Exists(srcFS, c[k].path) }

C6_MissingAssetStillRewritten ==
  pc \in {"writeOrig", "translate"} =>
     /\ Len(processed) = Len(chapter)
     /\ \A k \in MissingRefs(chapter) :
          /\ processed[k] = [ type |-> "img", alt |-> chapter[k].alt,
                              path |-> << "..", "images",
                                          chapter[k].path[Len(chapter[k].path)] >> ]
          /\ copies[chapter[k].path] = 0
     /\ outcome = "running"
     /\ (pc = "translate" /\ ~test_mode => origFiles[i] = Some(processed))

C6_Witness ==
  /\ pc = "translate"
  /\ ~test_mode
  /\ \E k \in MissingRefs(chapter) : chapter[k].path = << "img", "a.png" >>
  /\ origFiles[i] = Some(processed)

\* C7 (as claimed): a text with exactly two lines beginning with "# " splits
\* into exactly 2 chapters; a text with no heading line splits into exactly 1
\* chapter equal to the input.
HeadingLines(s, m) ==
  { p \in 1..Len(s) : (p = 1 \/ s[p - 1] = "\n") /\ LookingAt(s, p, m) }

C8_AtMostOneCopyPerPath ==
  \A p \in SrcPaths : copies[p] <= 1

\* C9: a failed chapter write at chapter i ends the run: nothing is called or
\* written afterwards, no file of a chapter after i exists, and the files of
\* chapters 1..i-1 are as they were.
C9_Step ==
  /\ (outcome # "writeError" /\ outcome' = "writeError") =>
        /\ pc' = "done"
        /\ callLog' = callLog
        /\ \A k \in 1..Len(callLog) : callLog[k] <= i
        /\ \A j \in 1..(i - 1) :
             origFiles'[j] = origFiles[j] /\ transFiles'[j] = transFiles[j]
        /\ \A j \in (i + 1)..MaxChapters :
             origFiles'[j] = None /\ transFiles'[j] = None
  /\ (outcome = "writeError" =>
        UNCHANGED << callLog, origFiles, transFiles, images, pc >>)

C9_WriteFailureAborts == [][C9_Step]_vars

C9_Witness ==
  /\ outcome = "writeError"
  /\ i = 2
  /\ origFiles[1] # None
  /\ transFiles[1] # None

\* C10: in a persist-mode run a translated file for an ordinal exists only if
\* the original file for it exists; the original is on disk when the
\* translation is called; after a completed run the originals are exactly
\* 1..N.
C10_OriginalBeforeTranslation ==
  ~test_mode =>
     /\ Written(transFiles) \subseteq Written(origFiles)
     /\ (pc \in {"translate", "relocTrans", "writeTrans"}
           => origFiles[i] # None)
     /\ (outcome = "completed" => Written(origFiles) = 1..N)

C10_Witness ==
  /\ ~test_mode
  /\ outcome = "completed"
  /\ N >= 2
  /\ Written(origFiles) = 1..N
  /\ Written(transFiles) # Written(origFiles)

====
